---- MODULE Spec2Model ----
(***************************************************************************)
(* Model of export_to_taskade.py: the export of the ACTIVE memory entries  *)
(* of a PostgreSQL store to a webhook, one record at a time, with a        *)
(* bounded retry on HTTP 429 and a pacing delay between records.           *)
(*                                                                         *)
(* The store is shared with the application that writes the memories, so   *)
(* its rows can change between two statements of the export (PostgreSQL    *)
(* READ COMMITTED: every statement sees its own snapshot).  The export     *)
(* reads the store twice (COUNT, then SELECT) and never again.  A write    *)
(* before the COUNT only makes the run start from another store, and a     *)
(* write after the SELECT is never seen, so the writer is modelled between *)
(* the two statements.                                                     *)
(***************************************************************************)
EXTENDS Integers, Sequences, FiniteSets

\* ------------------------------------------------------------------ bounds
MaxRecords == 2        \* rows of memory_entries in a generated store
MaxImportance == 2     \* importance values 1..MaxImportance of generated rows
MaxTime == 1           \* created_at values 1..MaxTime
MaxWrites == 2         \* writes of the application between COUNT and SELECT

\* ------------------------------------------------------- program constants
BATCH_SIZE == 1        \* export_to_taskade.py:41
MAX_RETRIES == 3       \* export_to_taskade.py:64  (retry_count < 3)
HTTP_OK == 200         \* export_to_taskade.py:60
HTTP_RATE_LIMITED == 429 \* export_to_taskade.py:62

Statuses == {"ACTIVE", "ARCHIVED"}
\* what requests.post can produce: a response with a status code, or a
\* requests.exceptions.RequestException (timeout, connection error, ...)
StatusCodes == {HTTP_OK, HTTP_RATE_LIMITED, 404, 500}
HttpResponse(code) == [raised |-> FALSE, status_code |-> code]
NetworkError == [raised |-> TRUE]
Responses == {HttpResponse(c) : c \in StatusCodes} \cup {NetworkError}

VARIABLES
  store,          \* memory_entries: id -> [importance, created_at, status]
  writes,         \* number of writes the application has made so far
  pc,             \* position of export_memories
  total,          \* result of SELECT COUNT          (line 87)
  memories,       \* result of cursor.fetchall()        (line 99)
  i,              \* loop index of enumerate(memories, 1)
  memory_data,    \* the payload built for the current record (lines 107-116)
  success_count,  \* line 100
  fail_count,     \* line 101
  batch_count,    \* line 102
  retry_count,    \* parameter of the running send_memory call
  inflight,       \* requests.post calls that have not returned yet
  attempts,       \* history: requests.post calls made for the current record
  outcomes,       \* history: responses to the attempts for the current record
  cooldowns,      \* history: time.sleep(DELAY_ON_ERROR) calls for the current record
  exhausted,      \* history: records given up after the last retry (line 69)
  sent,           \* history: result of send_memory for the current record
  handled,        \* history: number of send_memory calls that have returned
  delivered,      \* history: ids in the order of their first attempt
  paces,          \* history: number of time.sleep(DELAY_BETWEEN_BATCHES) calls
  requests,       \* history: requests.post calls of the whole run
  waits,          \* history: time.sleep(DELAY_ON_ERROR) calls of the whole run
  accepts,       \* history: responses with status 200 of the whole run
  slept,          \* history: a time.sleep has returned since the last requests.post
  summary         \* the final summary printed (lines 135-138), or NoSummary

vars == <<store, writes, pc, total, memories, i, memory_data, success_count,
          fail_count, batch_count, retry_count, inflight, attempts, outcomes,
          cooldowns, exhausted, sent, handled, delivered, paces, requests,
          waits, accepts, slept, summary>>

NoSummary == [printed |-> FALSE]
NoPayload == [built |-> FALSE]
NotSent == "none"
\* the value send_memory returned for the current record
Returned(ok) == IF ok THEN "True" ELSE "False"

\* ------------------------------------------------------------ row values
\* A column value as psycopg2 hands it over: None, a str (its characters), a
\* bool, or a Decimal (in hundredths).
None == [null |-> TRUE]
Str(chars) == [null |-> FALSE, chars |-> chars]
Bool(b) == [null |-> FALSE, bool |-> b]
Decimal(h) == [null |-> FALSE, hundredths |-> h]
\* a Python float (in hundredths)
Float(h) == [float_hundredths |-> h]

\* the columns of a row besides importance, status and created_at
Columns(content, type, confidence, support_count, is_protected, source) ==
  [content |-> content, type |-> type, confidence |-> confidence,
   support_count |-> support_count, is_protected |-> is_protected, source |-> source]

ContentValues == {Str(<<"H", "i">>), Str(<<"o", "k">>)}
TypeValues == {None, Str(<<>>), Str(<<"F", "a", "c", "t">>), Str(<<"S", "T", "O", "R", "Y">>)}
ConfidenceValues == {None, Decimal(0), Decimal(50)}
SupportCountValues == {0, 3}
ProtectedValues == {None, Bool(TRUE), Bool(FALSE)}
SourceValues == {None, Str(<<>>), Str(<<"C", "h", "a", "t">>)}
ColumnValues ==
  { Columns(c, t, cf, sc, ip, src) :
      c \in ContentValues, t \in TypeValues, cf \in ConfidenceValues,
      sc \in SupportCountValues, ip \in ProtectedValues, src \in SourceValues }

\* the columns of the rows of a generated store and of the example store
ColumnsOf(id) ==
  CASE id % 4 = 0 -> Columns(Str(<<"H", "i">>), None, None, 0, Bool(TRUE), None)
    [] id % 4 = 1 -> Columns(Str(<<"o", "k">>), Str(<<"F", "a", "c", "t">>), Decimal(50), 3, Bool(FALSE), Str(<<"C", "h", "a", "t">>))
    [] id % 4 = 2 -> Columns(Str(<<"H", "i">>), Str(<<"S", "T", "O", "R", "Y">>), Decimal(0), 3, None, Str(<<>>))
    [] OTHER -> Columns(Str(<<"o", "k">>), Str(<<>>), Decimal(50), 0, Bool(TRUE), Str(<<"C", "h", "a", "t">>))

\* ----------------------------------------------------------- record source
\* one row of cursor.fetchall(): the selected columns, with the id and the
\* created_at the ORDER BY used
RowWith(id, imp, t, st, cols) ==
  [id |-> id, importance |-> imp, created_at |-> t, status |-> st,
   content |-> cols.content, type |-> cols.type, confidence |-> cols.confidence,
   support_count |-> cols.support_count, is_protected |-> cols.is_protected,
   source |-> cols.source]
Row(id, imp, t, st) == RowWith(id, imp, t, st, ColumnsOf(id))

\* WHERE status = 'ACTIVE'
ActiveIds(s) == {id \in DOMAIN s : s[id].status = "ACTIVE"}

\* SELECT COUNT FROM memory_entries WHERE status = 'ACTIVE'
CountActive(s) == Cardinality(ActiveIds(s))

\* variant: ORDER BY importance DESC, created_at ASC
Precedes_OldestFirst(a, b) ==
  \/ a.importance > b.importance
  \/ a.importance = b.importance /\ a.created_at <= b.created_at

\* ORDER BY importance DESC, created_at DESC: may row a stand before row b
Precedes(a, b) ==
  \/ a.importance > b.importance
  \/ a.importance = b.importance /\ a.created_at >= b.created_at

\* The results the SELECT can return on store s: every arrangement of the
\* ACTIVE rows that respects the ORDER BY (rows equal in both keys come in
\* an order SQL leaves open).
FetchResults(s) ==
  LET ids == ActiveIds(s)
      n == Cardinality(ids)
  IN { [k \in 1..n |-> Row(f[k], s[f[k]].importance, s[f[k]].created_at, s[f[k]].status)] :
         f \in { g \in [1..n -> ids] :
                   /\ \A x, y \in 1..n : x # y => g[x] # g[y]
                   /\ \A x, y \in 1..n : x < y => Precedes(s[g[x]], s[g[y]]) } }

\* ------------------------------------------------------------ send_memory
\* variant: every status below 500 is taken for a success
IsAccepted_Below500(r) == r.status_code < 500
\* line 60
IsAccepted(r) == r.status_code = HTTP_OK
\* variant: every status but 200 is taken for a rate limit
IsRateLimited_AnyError(r) == r.status_code # HTTP_OK
\* line 62
IsRateLimited(r) == r.status_code = HTTP_RATE_LIMITED
\* variant: retry_count < 5
CanRetry_UpToFive(rc) == rc < 5
\* variant: retry_count <= 3
CanRetry_OneMore(rc) == rc <= MAX_RETRIES
\* line 64
CanRetry(rc) == rc < MAX_RETRIES
\* variant: the retry count is kept from one record to the next
InitialRetryCount_Shared(prev) == prev
\* lines 51 and 119: send_memory(memory_data) starts with retry_count=0,
\* whatever the value prev the previous call ended with
InitialRetryCount(prev) == 0
\* variant: line 67 without its return, the result of a retry is dropped
SendResult_DroppedReturn(accepted, rc) == accepted /\ rc = 0
\* lines 61 and 67: the value the outermost send_memory call returns when
\* the call at depth rc got the response r (return True at line 61, handed
\* up by every return send_memory(...) at line 67)
SendResult(accepted, rc) == accepted

\* ------------------------------------------------- payload (lines 107-116)
\* str.lower() on one character
LowerChar(c) ==
  CASE c = "A" -> "a" [] c = "C" -> "c" [] c = "D" -> "d" [] c = "E" -> "e"
    [] c = "F" -> "f" [] c = "H" -> "h" [] c = "I" -> "i" [] c = "O" -> "o"
    [] c = "R" -> "r" [] c = "S" -> "s" [] c = "T" -> "t" [] c = "V" -> "v"
    [] c = "Y" -> "y" [] OTHER -> c
\* str.lower()
Lower(chars) == [k \in 1..Len(chars) |-> LowerChar(chars[k])]
\* the characters of a status value of the store
StatusChars(st) ==
  CASE st = "ACTIVE" -> <<"A", "C", "T", "I", "V", "E">>
    [] st = "ARCHIVED" -> <<"A", "R", "C", "H", "I", "V", "E", "D">>
    [] OTHER -> <<>>
\* truth value of a str or None, and of a bool or None
TruthyStr(v) == ~v.null /\ v.chars # <<>>
TruthyBool(v) == ~v.null /\ v.bool
FactLabel == <<"f", "a", "c", "t">>
ActiveLabel == <<"a", "c", "t", "i", "v", "e">>
\* "postgresql_export"
FallbackSource ==
  <<"p", "o", "s", "t", "g", "r", "e", "s", "q", "l", "_", "e", "x", "p", "o", "r", "t">>
\* variant: the type is passed on without .lower()
MemoryType_NoLower(type) == IF TruthyStr(type) THEN type.chars ELSE FactLabel
\* line 109
MemoryType(type) == IF TruthyStr(type) THEN Lower(type.chars) ELSE FactLabel
\* line 111
Confidence(c) == IF ~c.null THEN Float(c.hundredths) ELSE Float(0)
\* line 113
StatusLabel(st) == IF StatusChars(st) # <<>> THEN Lower(StatusChars(st)) ELSE ActiveLabel
\* line 114
IsProtectedLabel(b) == IF TruthyBool(b) THEN "yes" ELSE "no"
\* line 115
SourceLabel(src) == IF TruthyStr(src) THEN src.chars ELSE FallbackSource
\* lines 107-116
Payload(row) ==
  [built |-> TRUE,
   memoryContent |-> row.content,
   memoryType |-> MemoryType(row.type),
   importance |-> row.importance,
   confidence |-> Confidence(row.confidence),
   supportCount |-> row.support_count,
   status |-> StatusLabel(row.status),
   isProtected |-> IsProtectedLabel(row.is_protected),
   source |-> SourceLabel(row.source)]

\* --------------------------------------------------------- export_memories
\* line 126
BatchDelayDue(idx, tot) == idx % BATCH_SIZE = 0 /\ idx < tot
\* line 138
BatchesReported(bc, tot) == IF tot > 0 THEN bc + 1 ELSE 0
\* variant: success_count += 1 outside the if
CountOutcome_AlwaysSuccess(ok) ==
  /\ success_count' = success_count + 1
  /\ fail_count' = IF ok THEN fail_count ELSE fail_count + 1

\* lines 119-123: exactly one of the two counters is incremented
CountOutcome(ok) ==
  /\ success_count' = IF ok THEN success_count + 1 ELSE success_count
  /\ fail_count' = IF ok THEN fail_count ELSE fail_count + 1

\* ------------------------------------------------------------------- Init
GeneratedStores ==
  UNION { [0..(n-1) -> [importance : 1..MaxImportance, created_at : 1..MaxTime, status : Statuses]] :
            n \in 0..MaxRecords }

\* The store of the ordering example: importances [10, 50, 50, 5], creation
\* times [t1, t2, t3, t4] with t3 > t2, all rows ACTIVE.
ExampleImportance == <<10, 50, 50, 5>>
ExampleTimes == { u \in [1..4 -> {1, 2}] : u[3] > u[2] }
ExampleStores ==
  { [id \in 0..3 |-> [importance |-> ExampleImportance[id + 1], created_at |-> t[id + 1], status |-> "ACTIVE"]] :
      t \in ExampleTimes }

Init ==
  /\ store \in GeneratedStores \cup ExampleStores
  /\ writes = 0
  /\ pc = "start"
  /\ total = 0
  /\ memories = <<>>
  /\ i = 0
  /\ success_count = 0
  /\ fail_count = 0
  /\ batch_count = 0
  /\ retry_count = 0
  /\ inflight = 0
  /\ attempts = 0
  /\ outcomes = <<>>
  /\ cooldowns = 0
  /\ exhausted = 0
  /\ sent = NotSent
  /\ handled = 0
  /\ delivered = <<>>
  /\ paces = 0
  /\ requests = 0
  /\ waits = 0
  /\ accepts = 0
  /\ slept = FALSE
  /\ memory_data = NoPayload
  /\ summary = NoSummary

\* ---------------------------------------------------------------- actions
\* The application changes the status of one row (a memory is archived, or
\* a new one becomes ACTIVE) between the two statements of the export.
StoreWrite ==
  /\ pc = "counted"
  /\ writes < MaxWrites
  /\ \E id \in DOMAIN store, st \in Statuses :
       /\ store[id].status # st
       /\ store' = [store EXCEPT ![id].status = st]
  /\ writes' = writes + 1
  /\ UNCHANGED <<pc, total, memories, i, memory_data, success_count,
                 fail_count, batch_count, retry_count, inflight, attempts,
                 outcomes, cooldowns, exhausted, sent, handled, delivered,
                 paces, requests, waits, accepts, slept, summary>>

\* lines 82-83: get_connection() and conn.cursor() succeed
Connect ==
  /\ pc = "start"
  /\ pc' = "connected"
  /\ UNCHANGED <<store, writes, total, memories, i, memory_data,
                 success_count, fail_count, batch_count, retry_count,
                 inflight, attempts, outcomes, cooldowns, exhausted, sent,
                 handled, delivered, paces, requests, waits, accepts, slept,
                 summary>>

\* variant: the summary is printed in a finally block, after a failure too
StoreFailure_SummaryAnyway ==
  /\ pc \in {"start", "connected", "counted"}
  /\ pc' = "aborted"
  /\ summary' = [printed |-> TRUE, succeeded |-> success_count, failed |-> fail_count,
                 total |-> total, batches |-> BatchesReported(batch_count, total)]
  /\ UNCHANGED <<store, writes, total, memories, i, memory_data,
                 success_count, fail_count, batch_count, retry_count,
                 inflight, attempts, outcomes, cooldowns, exhausted, sent,
                 handled, delivered, paces, requests, waits, accepts, slept>>

\* lines 82-99 raise (psycopg2 error): caught at line 147, the run ends
\* without a summary
StoreFailure ==
  /\ pc \in {"start", "connected", "counted"}
  /\ pc' = "aborted"
  /\ UNCHANGED <<store, writes, total, memories, i, memory_data,
                 success_count, fail_count, batch_count, retry_count,
                 inflight, attempts, outcomes, cooldowns, exhausted, sent,
                 handled, delivered, paces, requests, waits, accepts, slept,
                 summary>>

\* lines 86-88
CountQuery ==
  /\ pc = "connected"
  /\ total' = CountActive(store)
  /\ pc' = "counted"
  /\ UNCHANGED <<store, writes, memories, i, memory_data, success_count,
                 fail_count, batch_count, retry_count, inflight, attempts,
                 outcomes, cooldowns, exhausted, sent, handled, delivered,
                 paces, requests, waits, accepts, slept, summary>>

\* lines 91-104
FetchAll ==
  /\ pc = "counted"
  /\ memories' \in FetchResults(store)
  /\ success_count' = 0
  /\ fail_count' = 0
  /\ batch_count' = 0
  /\ pc' = "loop"
  /\ UNCHANGED <<store, writes, total, i, memory_data, retry_count, inflight,
                 attempts, outcomes, cooldowns, exhausted, sent, handled,
                 delivered, paces, requests, waits, accepts, slept, summary>>

\* lines 106-119: the next row is taken, its payload built, and send_memory
\* is called with retry_count = 0
NextRecord ==
  /\ pc = "loop"
  /\ i < Len(memories)
  /\ i' = i + 1
  /\ memory_data' = Payload(memories[i + 1])
  /\ retry_count' = InitialRetryCount(retry_count)
  /\ attempts' = 0
  /\ outcomes' = <<>>
  /\ cooldowns' = 0
  /\ sent' = NotSent
  /\ pc' = "post"
  /\ UNCHANGED <<store, writes, total, memories, success_count, fail_count,
                 batch_count, inflight, exhausted, handled, delivered, paces,
                 requests, waits, accepts, slept, summary>>

\* variant: the request is handed to a background thread and the next one
\* is issued without waiting for its response
Post_FireAndForget ==
  /\ pc = "post"
  /\ inflight' = inflight + 1
  /\ attempts' = attempts + 1
  /\ requests' = requests + 1
  /\ slept' = FALSE
  /\ delivered' = IF attempts = 0 THEN Append(delivered, memories[i].id) ELSE delivered
  /\ pc' = "post"
  /\ UNCHANGED <<store, writes, total, memories, i, memory_data,
                 success_count, fail_count, batch_count, retry_count,
                 outcomes, cooldowns, exhausted, sent, handled, paces, waits,
                 accepts, summary>>

\* lines 54-58: requests.post is called
Post ==
  /\ pc = "post"
  /\ inflight' = inflight + 1
  /\ attempts' = attempts + 1
  /\ requests' = requests + 1
  /\ slept' = FALSE
  /\ delivered' = IF attempts = 0 THEN Append(delivered, memories[i].id) ELSE delivered
  /\ pc' = "awaiting"
  /\ UNCHANGED <<store, writes, total, memories, i, memory_data,
                 success_count, fail_count, batch_count, retry_count,
                 outcomes, cooldowns, exhausted, sent, handled, paces, waits,
                 accepts, summary>>

\* variant: a failed delivery raises instead of returning False, and the
\* handler at line 147 ends the run
AfterSend_RaiseOnFailure(ok) ==
  /\ sent' = Returned(ok)
  /\ handled' = handled + 1
  /\ IF ok
       THEN /\ CountOutcome(ok)
            /\ IF BatchDelayDue(i, total)
                 THEN batch_count' = batch_count + 1 /\ pc' = "pacing"
                 ELSE batch_count' = batch_count /\ pc' = "loop"
       ELSE /\ pc' = "aborted"
            /\ UNCHANGED <<success_count, fail_count, batch_count>>

\* lines 119-129 once send_memory has returned ok: one counter is
\* incremented, then the batch delay is decided
AfterSend(ok) ==
  /\ sent' = Returned(ok)
  /\ handled' = handled + 1
  /\ CountOutcome(ok)
  /\ IF BatchDelayDue(i, total)
       THEN batch_count' = batch_count + 1 /\ pc' = "pacing"
       ELSE batch_count' = batch_count /\ pc' = "loop"

\* lines 60-61 and 119-126: status 200
RespondAccepted(r) ==
  /\ ~r.raised
  /\ IsAccepted(r)
  /\ AfterSend(SendResult(TRUE, retry_count))
  /\ UNCHANGED exhausted

\* lines 62-66: status 429 with retries left; the cool-down sleep starts
RespondRetry(r) ==
  /\ ~r.raised
  /\ ~IsAccepted(r)
  /\ IsRateLimited(r)
  /\ CanRetry(retry_count)
  /\ pc' = "cooldown"
  /\ UNCHANGED <<sent, handled, success_count, fail_count, batch_count, exhausted>>

\* lines 68-70: status 429 with the retries used up
RespondExhausted(r) ==
  /\ ~r.raised
  /\ ~IsAccepted(r)
  /\ IsRateLimited(r)
  /\ ~CanRetry(retry_count)
  /\ exhausted' = exhausted + 1
  /\ AfterSend(SendResult(FALSE, retry_count))

\* lines 71-73: any other status
RespondRejected(r) ==
  /\ ~r.raised
  /\ ~IsAccepted(r)
  /\ ~IsRateLimited(r)
  /\ AfterSend(SendResult(FALSE, retry_count))
  /\ UNCHANGED exhausted

\* lines 75-77: requests.post raised a RequestException
RespondNetworkFailure(r) ==
  /\ r.raised
  /\ AfterSend(SendResult(FALSE, retry_count))
  /\ UNCHANGED exhausted

\* requests.post returns (or raises) and send_memory acts on it
Respond ==
  /\ pc = "awaiting"
  /\ \E r \in Responses :
       /\ outcomes' = Append(outcomes, r)
       /\ accepts' = IF ~r.raised /\ r.status_code = HTTP_OK THEN accepts + 1 ELSE accepts
       /\ \/ RespondAccepted(r)
          \/ RespondRetry(r)
          \/ RespondExhausted(r)
          \/ RespondRejected(r)
          \/ RespondNetworkFailure(r)
  /\ inflight' = inflight - 1
  /\ UNCHANGED <<store, writes, total, memories, i, memory_data, retry_count,
                 attempts, cooldowns, delivered, paces, requests, waits,
                 slept, summary>>

\* lines 66-67: time.sleep(DELAY_ON_ERROR) returns, send_memory recurses
\* with retry_count + 1
CoolDown ==
  /\ pc = "cooldown"
  /\ cooldowns' = cooldowns + 1
  /\ waits' = waits + 1
  /\ slept' = TRUE
  /\ retry_count' = retry_count + 1
  /\ pc' = "post"
  /\ UNCHANGED <<store, writes, total, memories, i, memory_data,
                 success_count, fail_count, batch_count, inflight, attempts,
                 outcomes, exhausted, sent, handled, delivered, paces,
                 requests, accepts, summary>>

\* line 129: time.sleep(DELAY_BETWEEN_BATCHES) returns
Pace ==
  /\ pc = "pacing"
  /\ paces' = paces + 1
  /\ slept' = TRUE
  /\ pc' = "loop"
  /\ UNCHANGED <<store, writes, total, memories, i, memory_data,
                 success_count, fail_count, batch_count, retry_count,
                 inflight, attempts, outcomes, cooldowns, exhausted, sent,
                 handled, delivered, requests, waits, accepts, summary>>

\* lines 131-141: the loop is over, the summary is printed
Summary ==
  /\ pc = "loop"
  /\ i >= Len(memories)
  /\ summary' = [printed |-> TRUE, succeeded |-> success_count, failed |-> fail_count,
                 total |-> total, batches |-> BatchesReported(batch_count, total)]
  /\ pc' = "done"
  /\ UNCHANGED <<store, writes, total, memories, i, memory_data,
                 success_count, fail_count, batch_count, retry_count,
                 inflight, attempts, outcomes, cooldowns, exhausted, sent,
                 handled, delivered, paces, requests, waits, accepts, slept>>

Next ==
  \/ StoreWrite
  \/ Connect
  \/ StoreFailure
  \/ CountQuery
  \/ FetchAll
  \/ NextRecord
  \/ Post
  \/ Respond
  \/ CoolDown
  \/ Pace
  \/ Summary

Spec == Init /\ [][Next]_vars

\* The steps of the export itself.  Every call it makes returns (the
\* queries, requests.post with its timeout of 15 s, time.sleep), so a run
\* that can take a step takes one; a failure of the store and a write of
\* the application may or may not happen.
ProgramStep ==
  \/ Connect
  \/ CountQuery
  \/ FetchAll
  \/ NextRecord
  \/ Post
  \/ Respond
  \/ CoolDown
  \/ Pace
  \/ Summary

\* How a run ends depends on the number of rows and on the responses, not
\* on the keys of the ORDER BY: the fair runs start from the generated
\* stores whose rows all have importance 1 and created_at 1.
InitFair ==
  /\ Init
  /\ store \in GeneratedStores
  /\ \A id \in DOMAIN store : store[id].importance = 1 /\ store[id].created_at = 1

FairSpec == InitFair /\ [][Next]_vars /\ WF_vars(ProgramStep)

\* The payload of one fetched row, for every row over the column values:
\* the run has fetched the single ACTIVE row of the store and builds its
\* payload.
InitTransform ==
  /\ \E cols \in ColumnValues, imp \in 1..MaxImportance :
       /\ store = [id \in {0} |-> [importance |-> imp, created_at |-> 1, status |-> "ACTIVE"]]
       /\ memories = <<RowWith(0, imp, 1, "ACTIVE", cols)>>
  /\ writes = 0
  /\ pc = "loop"
  /\ total = 1
  /\ i = 0
  /\ success_count = 0
  /\ fail_count = 0
  /\ batch_count = 0
  /\ retry_count = 0
  /\ inflight = 0
  /\ attempts = 0
  /\ outcomes = <<>>
  /\ cooldowns = 0
  /\ exhausted = 0
  /\ sent = NotSent
  /\ handled = 0
  /\ delivered = <<>>
  /\ paces = 0
  /\ requests = 0
  /\ waits = 0
  /\ accepts = 0
  /\ slept = FALSE
  /\ memory_data = NoPayload
  /\ summary = NoSummary

SpecTransform == InitTransform /\ [][NextRecord]_vars

\* ================================================================ claims
RateLimited == HttpResponse(HTTP_RATE_LIMITED)
Accepted == HttpResponse(HTTP_OK)
\* a status other than 200 and 429
IsRejectedOutcome(r) == ~r.raised /\ r.status_code \notin {HTTP_OK, HTTP_RATE_LIMITED}
IsNetworkFailureOutcome(r) == r.raised
\* send_memory has returned for the current record
ReturnedPcs == {"loop", "pacing", "done"}

\* C1: at the final summary, succeeded + failed equals the reported total.
C1_SumEqualsTotal ==
  summary.printed => summary.succeeded + summary.failed = summary.total

\* C2: between records success_count + fail_count is the number of records
\* processed so far; each processed record increments exactly one of the
\* two counters by exactly one, and no counter ever decreases.
Processed == IF pc \in {"post", "awaiting", "cooldown"} THEN i - 1 ELSE i
C2_CountersTrackProcessed ==
  /\ [](success_count + fail_count = Processed /\ handled = Processed)
  /\ [][/\ success_count' >= success_count
        /\ fail_count' >= fail_count
        /\ handled' # handled =>
             \/ success_count' = success_count + 1 /\ fail_count' = fail_count
             \/ success_count' = success_count /\ fail_count' = fail_count + 1
        /\ handled' = handled =>
             success_count' = success_count /\ fail_count' = fail_count]_vars
C2_Witness ==
  /\ pc = "loop"
  /\ handled = 2
  /\ success_count = 1
  /\ fail_count = 1

\* C3: a failed record never ends the run: the run is aborted only before
\* the first record is taken, and a run that got its records reaches the
\* summary with every fetched record attempted at least once.
C3_NoAbortOnRecordFailure ==
  /\ pc = "aborted" => handled = 0 /\ delivered = <<>> /\ i = 0 /\ fail_count = 0
  /\ pc = "done" =>
       /\ summary.printed
       /\ handled = Len(memories)
       /\ delivered = [k \in 1..Len(memories) |-> memories[k].id]
  /\ pc \notin {"done", "aborted"} => ~summary.printed
C3_Witness ==
  /\ pc = "done"
  /\ Len(memories) >= 2
  /\ fail_count = Len(memories)
  /\ exhausted = 1

\* C4: 429 on the first MAX_RETRIES attempts and 200 on the next one is a
\* success, after exactly MAX_RETRIES cool-downs and MAX_RETRIES + 1 attempts.
RateLimitedThenAccepted ==
  [k \in 1..(MAX_RETRIES + 1) |-> IF k <= MAX_RETRIES THEN RateLimited ELSE Accepted]
C4_AcceptedAfterMaxRetries ==
  /\ [](outcomes = RateLimitedThenAccepted =>
          /\ sent = Returned(TRUE)
          /\ cooldowns = MAX_RETRIES
          /\ attempts = MAX_RETRIES + 1
          /\ pc \in ReturnedPcs)
  /\ [][outcomes' = RateLimitedThenAccepted /\ outcomes # outcomes' =>
          success_count' = success_count + 1 /\ fail_count' = fail_count]_vars
C4_Witness ==
  /\ outcomes = RateLimitedThenAccepted
  /\ sent = Returned(TRUE)
  /\ success_count = 1

\* C5: 429 on every attempt up to the (MAX_RETRIES + 1)-th is a failure,
\* after exactly MAX_RETRIES cool-downs and MAX_RETRIES + 1 attempts; no
\* cool-down follows the last attempt and no further attempt is made.
AllRateLimited == [k \in 1..(MAX_RETRIES + 1) |-> RateLimited]
C5_FailedAfterMaxRetries ==
  /\ []((/\ Len(outcomes) > MAX_RETRIES
         /\ \A k \in 1..(MAX_RETRIES + 1) : outcomes[k] = RateLimited) =>
          /\ outcomes = AllRateLimited
          /\ sent = Returned(FALSE)
          /\ cooldowns = MAX_RETRIES
          /\ attempts = MAX_RETRIES + 1
          /\ pc \in ReturnedPcs)
  /\ [][outcomes' = AllRateLimited /\ outcomes # outcomes' =>
          /\ fail_count' = fail_count + 1
          /\ success_count' = success_count
          /\ pc' # "cooldown"]_vars
C5_Witness ==
  /\ outcomes = AllRateLimited
  /\ sent = Returned(FALSE)
  /\ fail_count = 1

\* C6: a Rejected or NetworkFailure outcome ends the record as a failure at
\* once, at whatever retry count: it is the last attempt, no cool-down
\* follows it, and a first-attempt rejection is one attempt, zero cool-downs.
C6_NoRetryOnRejectedOrNetworkFailure ==
  /\ [](\A k \in 1..Len(outcomes) :
          (IsRejectedOutcome(outcomes[k]) \/ IsNetworkFailureOutcome(outcomes[k])) =>
            /\ k = Len(outcomes)
            /\ sent = Returned(FALSE)
            /\ attempts = k
            /\ cooldowns = k - 1
            /\ pc \in ReturnedPcs)
  /\ [][(/\ Len(outcomes') = Len(outcomes) + 1
         /\ \/ IsRejectedOutcome(outcomes'[Len(outcomes')])
            \/ IsNetworkFailureOutcome(outcomes'[Len(outcomes')])) =>
          /\ fail_count' = fail_count + 1
          /\ success_count' = success_count
          /\ pc' # "cooldown"]_vars
C6_Witness ==
  /\ outcomes = <<HttpResponse(404)>>
  /\ sent = Returned(FALSE)
  /\ attempts = 1
  /\ cooldowns = 0
  /\ fail_count = 1

\* C7: with BATCH_SIZE = 1 and n fetched records the pacing delay occurs
\* exactly n - 1 times, after every record that is not the last one and
\* never after the last.
C7_PacingBetweenRecords ==
  /\ pc = "pacing" => i < Len(memories)
  /\ (pc = "loop" /\ 0 < i /\ i < Len(memories)) => paces = i
  /\ (pc = "done" /\ Len(memories) > 0) => paces = Len(memories) - 1

\* C8: when the record source yields no record the summary is all zero,
\* nothing is delivered and no delay occurs.
C8_EmptySourceAllZero ==
  (pc = "done" /\ memories = <<>>) =>
    /\ summary.total = 0
    /\ summary.succeeded = 0
    /\ summary.failed = 0
    /\ summary.batches = 0
    /\ delivered = <<>>
    /\ attempts = 0
    /\ cooldowns = 0
    /\ paces = 0

\* C9: the retry count starts at 0 for every record: a record has its
\* MAX_RETRIES retries whatever earlier records used up, and never gets
\* more than MAX_RETRIES + 1 attempts.
C9_RetryCountPerRecord ==
  /\ (pc = "post" /\ attempts = 0) => retry_count = 0
  /\ pc \in {"post", "awaiting", "cooldown"} => retry_count = cooldowns
  /\ attempts <= MAX_RETRIES + 1
  /\ (/\ pc \in {"cooldown"} \cup ReturnedPcs
      /\ Len(outcomes) \in 1..MAX_RETRIES
      /\ \A k \in 1..Len(outcomes) : outcomes[k] = RateLimited) => pc = "cooldown"
C9_Witness ==
  /\ i = 2
  /\ exhausted = 1
  /\ pc = "cooldown"
  /\ Len(outcomes) = MAX_RETRIES

\* C10: only ACTIVE rows are delivered, in the order of the source: higher
\* importance first, and of two rows of equal importance the one created
\* later first.  The rows of the example (importances [10, 50, 50, 5],
\* t3 > t2) are delivered in the order idx2, idx1, idx0, idx3.
RowById(id) == CHOOSE r \in {memories[k] : k \in 1..Len(memories)} : r.id = id
ExampleFetched ==
  /\ Len(memories) = 4
  /\ {memories[k].id : k \in 1..4} = 0..3
  /\ \A k \in 1..4 : memories[k].importance = ExampleImportance[memories[k].id + 1]
  /\ RowById(2).created_at > RowById(1).created_at
C10_SourceOrder ==
  /\ Len(delivered) <= Len(memories)
  /\ \A k \in 1..Len(delivered) : delivered[k] = memories[k].id
  /\ \A k \in 1..Len(memories) : memories[k].status = "ACTIVE"
  /\ \A x, y \in 1..Len(memories) : x < y =>
       \/ memories[x].importance > memories[y].importance
       \/ /\ memories[x].importance = memories[y].importance
          /\ memories[x].created_at >= memories[y].created_at
  /\ (pc = "done" /\ ExampleFetched) => delivered = <<2, 1, 0, 3>>
C10_Witness ==
  /\ pc = "done"
  /\ ExampleFetched
  /\ delivered = <<2, 1, 0, 3>>
\* C10 as written: the example's rows are delivered idx1, idx2, idx0, idx3.
C10_ExampleOrderAsWritten ==
  (pc = "done" /\ ExampleFetched) => delivered = <<1, 2, 0, 3>>

\* C11: at most one request to the webhook is outstanding, and an attempt
\* starts only after every earlier attempt has returned its outcome.
C11_OneRequestAtATime ==
  /\ inflight \in {0, 1}
  /\ inflight = 1 <=> pc = "awaiting"
  /\ attempts = Len(outcomes) + inflight
  /\ pc = "post" => inflight = 0 /\ attempts = Len(outcomes)
C11_Witness ==
  /\ inflight = 1
  /\ i = 2
  /\ attempts = 3
  /\ Len(outcomes) = 2

\* C12: when the store cannot be reached or the records cannot be read the
\* run is aborted with no delivery attempt, no cool-down, no pacing delay
\* and no summary; a run is aborted only there, before its first record.
C12_StoreFailureAbortsRun ==
  pc = "aborted" =>
    /\ requests = 0
    /\ waits = 0
    /\ paces = 0
    /\ inflight = 0
    /\ ~summary.printed
    /\ memories = <<>>
    /\ i = 0
C12_Witness ==
  /\ pc = "aborted"
  /\ total = 2
  /\ writes = 1

\* C13: one attempt is one outbound call with one outcome: 200 is Accepted,
\* 429 RateLimited, any other status Rejected, an exception NetworkFailure;
\* the calls made for a record are its cool-downs plus one.
LastOutcome == outcomes[Len(outcomes)]
C13_SingleShotClassifier ==
  /\ attempts = Len(outcomes) + inflight
  /\ attempts > 0 => attempts = cooldowns + (IF pc = "post" THEN 0 ELSE 1)
  /\ (pc \in ReturnedPcs /\ outcomes # <<>>) =>
       /\ attempts = cooldowns + 1
       /\ LastOutcome = Accepted <=> sent = Returned(TRUE)
       /\ LastOutcome # Accepted <=> sent = Returned(FALSE)
       /\ LastOutcome = RateLimited => cooldowns = MAX_RETRIES
  /\ pc = "cooldown" => LastOutcome = RateLimited
C13_Witness ==
  /\ pc \in ReturnedPcs
  /\ outcomes = <<RateLimited, RateLimited, HttpResponse(500)>>
  /\ attempts = 3
  /\ cooldowns = 2
  /\ sent = Returned(FALSE)

\* C14: the payload of a row: a null confidence gives 0.0, is_protected
\* true/false gives "yes"/"no", a null source gives the fallback label, the
\* type is lower-cased and an absent type gives "fact", the status is
\* lower-cased, content, importance and supportCount are passed on.
CasePairs ==
  {<<"A", "a">>, <<"C", "c">>, <<"D", "d">>, <<"E", "e">>, <<"F", "f">>,
   <<"H", "h">>, <<"I", "i">>, <<"O", "o">>, <<"R", "r">>, <<"S", "s">>,
   <<"T", "t">>, <<"V", "v">>, <<"Y", "y">>}
UpperChars == {p[1] : p \in CasePairs}
IsLowerOf(out, in) ==
  /\ Len(out) = Len(in)
  /\ \A k \in 1..Len(in) :
       /\ out[k] \notin UpperChars
       /\ out[k] = in[k] \/ <<in[k], out[k]>> \in CasePairs
C14_PayloadOfRow ==
  pc = "post" =>
    LET row == memories[i]
        p == memory_data
    IN /\ p.built
       /\ p.memoryContent = row.content
       /\ p.importance = row.importance
       /\ p.supportCount = row.support_count
       /\ row.confidence.null => p.confidence = Float(0)
       /\ ~row.confidence.null => p.confidence = Float(row.confidence.hundredths)
       /\ row.is_protected = Bool(TRUE) => p.isProtected = "yes"
       /\ row.is_protected = Bool(FALSE) => p.isProtected = "no"
       /\ row.source.null => p.source = FallbackSource
       /\ (~row.source.null /\ row.source.chars # <<>>) => p.source = row.source.chars
       /\ row.type.null => p.memoryType = <<"f", "a", "c", "t">>
       /\ (~row.type.null /\ row.type.chars # <<>>) => IsLowerOf(p.memoryType, row.type.chars)
       /\ row.type = Str(<<"F", "a", "c", "t">>) => p.memoryType = <<"f", "a", "c", "t">>
       /\ row.status = "ACTIVE" => p.status = <<"a", "c", "t", "i", "v", "e">>
C14_Witness ==
  /\ pc = "post"
  /\ memories[1].confidence = None
  /\ memories[1].is_protected = Bool(TRUE)
  /\ memories[1].source = None
  /\ memories[1].type = Str(<<"F", "a", "c", "t">>)
  /\ memory_data.confidence = Float(0)
  /\ memory_data.isProtected = "yes"
  /\ memory_data.source = FallbackSource
  /\ memory_data.memoryType = <<"f", "a", "c", "t">>

\* C15: the total the run uses is the number of rows it fetched.
C15_TotalIsFetchedCount ==
  pc \in {"loop", "post", "awaiting", "cooldown", "pacing", "done"} =>
    total = Len(memories)

\* C16: the batch count of the summary is ceil(total / BATCH_SIZE), 0 for a
\* total of 0, which is the number of pacing delays plus one when total > 0.
CeilDiv(a, b) == (a + b - 1) \div b
C16_BatchesIsCeilOfTotal ==
  summary.printed =>
    /\ summary.batches = CeilDiv(summary.total, BATCH_SIZE)
    /\ summary.total > 0 => summary.batches = paces + 1

\* C17: every run ends, in the summary or in a failure of the record
\* source, after at most n * (MAX_RETRIES + 1) requests and n * MAX_RETRIES
\* cool-downs for n fetched records.
C17_TerminatesWithinBounds ==
  /\ <>(pc \in {"done", "aborted"})
  /\ [](/\ requests <= Len(memories) * (MAX_RETRIES + 1)
        /\ waits <= Len(memories) * MAX_RETRIES)
C17_Witness ==
  /\ pc = "done"
  /\ Len(memories) = 2
  /\ requests = 2 * (MAX_RETRIES + 1)
  /\ waits = 2 * MAX_RETRIES

\* C18: with BATCH_SIZE = 1 a request that is not the first of the run is
\* made only after a sleep (cool-down or pacing delay) since the request
\* before it.
C18_SleepBetweenRequests ==
  (pc = "post" /\ requests > 0) => slept

\* C19: an accepted record is not sent again: a 200 is the last outcome of
\* its record, no record is attempted as two records, and the number of 200
\* responses of the run is the succeeded counter.
C19_AcceptedOnce ==
  /\ \A k \in 1..Len(outcomes) :
       outcomes[k] = Accepted =>
         k = Len(outcomes) /\ pc \in ReturnedPcs /\ sent = Returned(TRUE)
  /\ \A x, y \in 1..Len(delivered) : x # y => delivered[x] # delivered[y]
  /\ accepts = success_count
  /\ accepts <= Len(delivered)
  /\ summary.printed => summary.succeeded = accepts
C19_Witness ==
  /\ pc = "done"
  /\ accepts = 2
  /\ summary.succeeded = 2
  /\ requests = 5

====
